---- MODULE Spec2Model ----
(***************************************************************************)
(* Model of the crawl orchestrator of deepseek-ai-web-crawler:             *)
(* BaseCrawler (src/crawlers/base_crawler.py) with the three shapes of     *)
(* process_item its subclasses give it.                                    *)
(*                                                                         *)
(* A Python str is a sequence of one-character strings.  The float NaN     *)
(* that pandas returns for an empty CSV cell is the one-element sequence   *)
(* NaN.  An element of seen_items is either a tuple of strings, written    *)
(* TupleKey(..), or a plain string (a slug); the two never compare equal,  *)
(* as in Python.                                                           *)
(*                                                                         *)
(* The code between two awaits runs as one step.  The SIGINT handler may   *)
(* run in any state; the os._exit timer it arms fires only while the       *)
(* event loop has control, that is while the coroutine is suspended.       *)
(***************************************************************************)
EXTENDS Integers, Sequences, FiniteSets, TLC

\* ------------------------------------------------------------------ bounds
MaxTasks == 2      \* longest list get_urls_to_crawl returns
MaxRuns == 2       \* calls of crawl() against one store
max_retries == 3   \* BaseCrawler.__init__: max_retries: int = 3

\* ----------------------------------------------------------------- strings
NaN == <<"#nan">>
None == <<"#none">>

\* str.lower() on one character
LowerChar(c) ==
  CASE c = "A" -> "a"
    [] c = "U" -> "u"
    [] OTHER -> c

\* str.lower()
Lower(s) == [k \in 1..Len(s) |-> LowerChar(s[k])]

IsSpace(c) == c = " "

RECURSIVE LStrip(_)
LStrip(s) == IF s # <<>> /\ IsSpace(Head(s)) THEN LStrip(Tail(s)) ELSE s

RECURSIVE RStrip(_)
RStrip(s) ==
  IF s # <<>> /\ IsSpace(s[Len(s)]) THEN RStrip(SubSeq(s, 1, Len(s) - 1)) ELSE s

\* str.strip()
Strip(s) == RStrip(LStrip(s))

\* str(x): the float NaN prints as 'nan'
PyStr(v) == IF v = NaN THEN <<"n", "a", "n">> ELSE v

\* the default na_values of pandas.read_csv that this alphabet can spell
NaValues == {<<>>, <<"n", "a", "n">>}

\* pandas.read_csv on one cell of a dtype=str column
ReadCsvCell(c) == IF c \in NaValues THEN NaN ELSE c

\* DataFrame.to_csv on one cell: NaN and None are written as the empty field
WriteCsvCell(v) == IF v = NaN \/ v = None THEN <<>> ELSE v

\* ---------------------------------------------------------------- slugify
IsSeparator(c) == c \in {" ", "-", "_", ".", "/"}

\* re.sub(r'[\s/\\_.,;:...]+|-', '-', text) followed by re.sub(r'-+', '-', text)
RECURSIVE Hyphenate(_)
Hyphenate(s) ==
  IF s = <<>> THEN <<>>
  ELSE LET rest == Hyphenate(Tail(s))
       IN IF IsSeparator(Head(s))
          THEN IF rest # <<>> /\ Head(rest) = "-" THEN rest ELSE <<"-">> \o rest
          ELSE <<Head(s)>> \o rest

\* str.strip('-')
StripHyphens(s) ==
  LET l == IF s # <<>> /\ Head(s) = "-" THEN Tail(s) ELSE s
  IN IF l # <<>> /\ l[Len(l)] = "-" THEN SubSeq(l, 1, Len(l) - 1) ELSE l

slugify(text) == StripHyphens(Hyphenate(Lower(text)))

\* ------------------------------------------------------------- fingerprint
key_fields == <<"title", "link">>
required_keys == {"title", "price", "link"}
Fields == {"title", "price", "link"}

\* a Python tuple of strings as one comparable value
RECURSIVE JoinTuple(_)
JoinTuple(parts) ==
  IF parts = <<>> THEN <<")">>
  ELSE Head(parts) \o (IF Len(parts) > 1 THEN <<",">> ELSE <<>>) \o JoinTuple(Tail(parts))

TupleKey(parts) == <<"(">> \o JoinTuple(parts)

\* item.get(k, '')
Get(item, k) == IF k \in DOMAIN item THEN item[k] ELSE <<>>

\* tuple(item.get(k, '').lower().strip() for k in key_fields)
NormalizedItemKeys(item) ==
  TupleKey([j \in 1..Len(key_fields) |-> Strip(Lower(Get(item, key_fields[j])))])

\* tuple(str(row[k]).lower().strip() for k in key_fields), row read by pandas
NormalizedRowKeys(row) ==
  TupleKey([j \in 1..Len(key_fields) |-> Strip(Lower(PyStr(row[key_fields[j]])))])

\* -------------------------------------------------------------- the store
\* The tabular sink, the per-item sink and the ledger of one output path.
\* A CSV file is its data rows in file order; the header is not a row.
NoCsv == [exists |-> FALSE, rows |-> <<>>]

\* one row as DataFrame.to_csv writes it: a missing column is an empty field
WriteRow(item) == [f \in Fields |-> WriteCsvCell(IF f \in DOMAIN item THEN item[f] ELSE None)]

\* one row as pandas.read_csv returns it
ReadRow(row) == [f \in Fields |-> ReadCsvCell(row[f])]

ReadCsv(file) == [k \in 1..Len(file.rows) |-> ReadRow(file.rows[k])]

\* the values of the rows' key columns, as DataFrame.drop_duplicates compares them
RawKeys(row) == [j \in 1..Len(key_fields) |-> row[key_fields[j]]]

\* DataFrame.drop_duplicates(subset=key_fields): the first row of each key is kept
RECURSIVE DropDuplicates(_, _)
DropDuplicates(rows, kept) ==
  IF rows = <<>> THEN kept
  ELSE IF \E k \in 1..Len(kept) : RawKeys(kept[k]) = RawKeys(Head(rows))
       THEN DropDuplicates(Tail(rows), kept)
       ELSE DropDuplicates(Tail(rows), Append(kept, Head(rows)))

\* BaseCrawler._load_existing_data_csv: the keys added to seen_items
LoadedCsvKeys(file) ==
  IF file.exists THEN {NormalizedRowKeys(ReadCsv(file)[k]) : k \in 1..Len(file.rows)} ELSE {}

\* BaseCrawler._load_existing_data_csv: the rows appended to all_items
LoadedCsvItems(file) == IF file.exists THEN ReadCsv(file) ELSE <<>>

\* BaseCrawler._append_item_to_csv: the file after the call
append_item_to_csv(file, item) ==
  IF ~file.exists
  THEN [exists |-> TRUE, rows |-> <<WriteRow(item)>>]
  ELSE LET existing == ReadCsv(file)
           is_dup == \E k \in 1..Len(existing) :
                        NormalizedRowKeys(existing[k]) = NormalizedItemKeys(item)
       IN IF is_dup THEN file
          ELSE [exists |-> TRUE, rows |-> Append(file.rows, WriteRow(item))]

\* BaseCrawler._save_data_csv: the file after the call
save_data_csv(file, items) ==
  IF items = <<>> THEN file
  ELSE LET combined == IF file.exists
                       THEN DropDuplicates(ReadCsv(file) \o items, <<>>)
                       ELSE items
       IN [exists |-> TRUE, rows |-> [k \in 1..Len(combined) |-> WriteRow(combined[k])]]

\* BaseCrawler.is_complete
is_complete(item) == \A key \in required_keys : key \in DOMAIN item

\* BaseCrawler.is_duplicate
is_duplicate(item, seen) == NormalizedItemKeys(item) \in seen

\* BaseCrawler._get_detailed_item_filepath
get_detailed_item_filepath(name) == slugify(name)

\* utils.data_utils.save_to_json: the directory after the file is written
save_to_json(files, data, path) ==
  {f \in files : f.path # path} \cup {[path |-> path, data |-> data]}

\* BaseCrawler._load_existing_data_json: seen_items is cleared and refilled
LoadedJsonKeys(files) == {slugify(f.data.offer_name) : f \in files}

\* os.path.exists(output_path)
PathExists(files, path) == \E f \in files : f.path = path

\* the ledger file: its rows' url column, in file order
NoLedger == [exists |-> FALSE, rows |-> <<>>]

\* a load that reads nothing from the ledger file
LoadedLedgerUrlsNone(file) == {}

\* BaseCrawler._load_processed_urls_cache: the urls read into the cache
LoadedLedgerUrls(file) == {PyStr(ReadCsvCell(file.rows[k])) : k \in 1..Len(file.rows)}

\* BaseCrawler._load_processed_urls_cache: a missing file is created, header only
LedgerAfterLoad(file) == IF file.exists THEN file ELSE [exists |-> TRUE, rows |-> <<>>]

\* BaseCrawler._add_processed_url: the file, then the cache, after the call;
\* written is FALSE when opening or writing the file raises
LedgerFileAfterAdd(file, cache, url, written) ==
  IF url \notin cache /\ written
  THEN [exists |-> TRUE, rows |-> Append(file.rows, url)]
  ELSE file

LedgerCacheAfterAdd(cache, url, written) ==
  IF url \notin cache /\ written THEN cache \cup {url} ELSE cache

\* ------------------------------------------------------------- the inputs
\* process_item as the subclasses write it:
\*   csv_append    AngelTravelCrawler: two fetches through the retry loop, every
\*                 error caught, complete offers appended to the CSV, returns None
\*   json_inline   DariTourExcursionsDetailedCrawler: one fetch through the retry
\*                 loop, errors not caught, writes the JSON file itself
\*   json_deferred AngelTravelDetailedCrawler: three fetches by crawler.arun,
\*                 returns {data, path} and leaves the write to save_data
Variants == {"csv_append", "json_inline", "json_deferred"}

IsJson(v) == v \in {"json_inline", "json_deferred"}

\* the tasks get_urls_to_crawl may return: dicts that carry the key fields
tA == [title |-> <<"a">>, link |-> <<"u">>]
tA2 == [title |-> <<"A", " ">>, link |-> <<"U">>]
tE == [title |-> <<"b">>, link |-> <<>>]
TaskUniverse == {tA, tA2, tE}

RECURSIVE SeqsUpTo(_, _)
SeqsUpTo(S, n) ==
  IF n = 0 THEN {<<>>}
  ELSE LET shorter == SeqsUpTo(S, n - 1)
       IN shorter \cup {Append(q, x) : q \in {r \in shorter : Len(r) = n - 1}, x \in S}

TaskLists == SeqsUpTo(TaskUniverse, MaxTasks)

\* max_items: None, or a cap
NoCap == -1
MaxItemsChoices == {NoCap, 1}

\* the payload field of an extracted offer: a value, the empty string (a missing
\* element gives ''), or no key at all (an extracted dict that lacks it)
PriceOutcomes == {<<"9">>, <<>>, None}

\* the offer extracted from the page of a task
Offer(task, price) ==
  IF price = None THEN task
  ELSE [title |-> task.title, link |-> task.link, price |-> price]

\* the number of fetches process_item makes for one task
FetchesPerItem(v) ==
  CASE v = "csv_append" -> 2
    [] v = "json_inline" -> 1
    [] v = "json_deferred" -> 3

\* the Fingerprint of a stored row: its key cells, case-folded and trimmed
RowPrint(row) == TupleKey([j \in 1..Len(key_fields) |-> Strip(Lower(row[key_fields[j]]))])

\* the Fingerprints of the rows the tabular sink holds
SinkPrints(file) == {RowPrint(file.rows[k]) : k \in 1..Len(file.rows)}

\* the identifiers the ledger file holds
LedgerRows(file) == {file.rows[k] : k \in 1..Len(file.rows)}

NothingLoaded == [urls |-> {}, prints |-> {}]

\* --------------------------------------------------------------- the state
VARIABLES
  variant,               \* which subclass runs
  csvFile,               \* complete_offers.csv
  jsonFiles,             \* the files of DETAILS_DIR
  ledgerFile,            \* processed_urls.csv
  pc,                    \* where crawl() is
  runs,                  \* calls of crawl() so far
  max_items,             \* the argument of crawl()
  handlerInstalled,      \* signal.signal(SIGINT, ...) has run
  stop_event,            \* self.stop_event.is_set()
  exitTimer,             \* call_later(0.1, os._exit, 1) is pending
  session,               \* self.crawler: "new", "live", "closed" or "failed"
  seen_items,            \* self.seen_items
  all_items,             \* self.all_items
  processed_urls_cache,  \* self.processed_urls_cache
  urls_to_crawl,         \* the list get_urls_to_crawl returned
  i,                     \* the index of the loop of crawl(), from 1
  fetchNo,               \* which fetch of process_item is running, from 1
  attempt,               \* the loop variable of _run_crawler_with_retries
  invoked,               \* history: the indexes process_item was called for, this run
  accepted,              \* history: what process_item returned, this run
  endReason,             \* history: why the loop of crawl() was left
  failed,                \* history: <<task, run>> for every extraction that failed
  loaded,                \* history: what the sink and the ledger held when the run loaded them
  unreleased,            \* a session replaced in this run whose __aexit__ raised is still live
  policy,                \* which wait is computed: "retry", "rate_limit" or "pacing"
  lpc,                   \* where the loop that waits is
  count,                 \* attempt (retry), retry_count (rate_limit), processed_count (pacing)
  jitter,                \* the random draw, in hundredths
  many,                  \* len(offer_elements) > 20
  error,                 \* str(e) of the last exception of crawler.arun
  delay,                 \* the last wait applied, in hundredths of a second
  calls,                 \* history: calls of crawler.arun in this loop
  offersFile,            \* dari_tour_files/complete_offers.csv: the name column
  all_offers,            \* crawl_dari_tour_offers: all_offers as loaded
  seen_names,            \* crawl_dari_tour_offers: seen_names
  offers,                \* crawl_dari_tour_offers: offers
  opc,                   \* where crawl_dari_tour_offers is
  dynamic_crawlers_config,   \* main_cli: the keys of the active configuration
  inactive_crawlers_config,  \* main_cli: the keys of the inactive configuration
  crawlersFile,          \* crawlers_config.json: whether it exists, the keys it holds
  inactiveFile,          \* inactive_crawlers.json: whether it exists, the keys it holds
  cpc,                   \* where main_cli is
  moving,                \* the key a Delete or Re-add in progress is moving
  interrupted,           \* history: a Delete or Re-add was cut short by an error
  raised,                \* run_crawler: what the last crawl() raised
  printed,               \* run_crawler: what its last call printed, in order
  destFile,              \* processed_general_excursion_urls.csv: the url column
  processed_destination_urls,  \* DariTourExcursionsCrawler.processed_destination_urls
  all_offers_to_process, \* get_urls_to_crawl: all_offers_to_process
  dest                   \* get_urls_to_crawl: the index of the destination loop, from 1

store == <<csvFile, jsonFiles, ledgerFile>>
memory == <<seen_items, all_items, processed_urls_cache>>
position == <<urls_to_crawl, i, fetchNo, attempt>>
signals == <<handlerInstalled, stop_event, exitTimer>>
crawlVars == <<variant, store, pc, runs, max_items, signals, session, memory, position,
               invoked, accepted, endReason, failed, loaded, unreleased>>
delayVars == <<policy, lpc, count, jitter, many, error, delay, calls>>
offersVars == <<offersFile, all_offers, seen_names, offers, opc>>
cliVars == <<dynamic_crawlers_config, inactive_crawlers_config, crawlersFile, inactiveFile,
             cpc, moving, interrupted, raised, printed>>
excursionVars == <<destFile, processed_destination_urls, all_offers_to_process, dest>>
otherVars == <<delayVars, offersVars, cliVars, excursionVars>>
vars == <<crawlVars, otherVars>>

\* no wait has been applied yet
NoDelay == -1

\* no loop that waits is running
DelayIdle ==
  /\ policy = "none"
  /\ lpc = "idle"
  /\ count = 0
  /\ jitter = 0
  /\ many = FALSE
  /\ error = <<>>
  /\ delay = NoDelay
  /\ calls = 0

\* crawl_dari_tour_offers is not running, its CSV does not exist
OffersIdle ==
  /\ offersFile = [exists |-> FALSE, rows |-> <<>>]
  /\ all_offers = <<>>
  /\ seen_names = {}
  /\ offers = <<>>
  /\ opc = "idle"

\* a configuration file that does not exist
NoConfigFile == [exists |-> FALSE, text |-> <<>>]

\* no Delete or Re-add is in progress
NoKey == "-"

\* main_cli is not running, no configuration file exists
CliIdle ==
  /\ dynamic_crawlers_config = {}
  /\ inactive_crawlers_config = {}
  /\ crawlersFile = NoConfigFile
  /\ inactiveFile = NoConfigFile
  /\ cpc = "idle"
  /\ moving = NoKey
  /\ interrupted = FALSE
  /\ raised = "none"
  /\ printed = <<>>

\* processed_general_excursion_urls.csv does not exist
NoDestFile == [exists |-> FALSE, urls |-> {}]

\* no DariTourExcursionsCrawler has been constructed
ExcursionsIdle ==
  /\ destFile = NoDestFile
  /\ processed_destination_urls = {}
  /\ all_offers_to_process = <<>>
  /\ dest = 1

OtherIdle == DelayIdle /\ OffersIdle /\ CliIdle /\ ExcursionsIdle

\* BaseCrawler.__init__ over an output path that holds csv and ledger
InitOver(csv, ledger) ==
  /\ variant \in Variants
  /\ csvFile = csv
  /\ jsonFiles = {}
  /\ ledgerFile = ledger
  /\ pc = "idle"
  /\ runs = 0
  /\ max_items = NoCap
  /\ handlerInstalled = FALSE
  /\ stop_event = FALSE
  /\ exitTimer = FALSE
  /\ session = "new"
  /\ seen_items = {}
  /\ all_items = <<>>
  /\ processed_urls_cache = {}
  /\ urls_to_crawl = <<>>
  /\ i = 1
  /\ fetchNo = 1
  /\ attempt = 0
  /\ invoked = <<>>
  /\ accepted = {}
  /\ endReason = "none"
  /\ failed = {}
  /\ loaded = NothingLoaded
  /\ unreleased = FALSE

\* the output path is empty
Init == InitOver(NoCsv, NoLedger) /\ OtherIdle

\* item_url = item.get('link') if isinstance(item, dict) and 'link' in item else str(item)
item_url(item) == item.link

CurrentItem == urls_to_crawl[i]

\* history: the extraction of task failed in this run; a failure of the last run,
\* which no run follows, is not kept
FailedAfter(task) == IF runs < MaxRuns THEN failed \cup {<<task, runs>>} ELSE failed

\* crawl(), lines 401-406: the handler is installed, the session is being entered
StartCrawl ==
  /\ pc \in {"idle", "done"}
  /\ runs < MaxRuns
  /\ \E mi \in MaxItemsChoices : max_items' = mi
  /\ runs' = runs + 1
  /\ handlerInstalled' = TRUE
  /\ pc' = "entering"
  /\ invoked' = <<>>
  /\ accepted' = {}
  /\ endReason' = "none"
  /\ urls_to_crawl' = <<>>
  /\ UNCHANGED <<otherVars, variant, unreleased, failed, loaded, store, stop_event, exitTimer, session, memory, i, fetchNo,
                 attempt>>

\* complete_offers.csv exists and holds nothing, not even the header line:
\* pd.read_csv raises EmptyDataError on it
EmptyCsv == [exists |-> TRUE, rows |-> <<>>]

\* crawl(), lines 405-418: __aenter__ returned; existing data and the ledger are
\* loaded (line 160 raises on a file that holds nothing)
SessionEntered ==
  /\ pc = "entering"
  /\ ~(variant = "csv_append" /\ csvFile = EmptyCsv)
  /\ session' = "live"
  /\ IF IsJson(variant)
     THEN /\ seen_items' = LoadedJsonKeys(jsonFiles)
          /\ all_items' = all_items
     ELSE /\ seen_items' = seen_items \cup LoadedCsvKeys(csvFile)
          /\ all_items' = all_items \o LoadedCsvItems(csvFile)
  /\ processed_urls_cache' = processed_urls_cache \cup LoadedLedgerUrls(ledgerFile)
  /\ ledgerFile' = LedgerAfterLoad(ledgerFile)
  /\ loaded' = [urls |-> LedgerRows(ledgerFile), prints |-> SinkPrints(csvFile)]
  /\ pc' = "fetch"
  /\ UNCHANGED <<otherVars, variant, unreleased, failed, csvFile, jsonFiles, runs, max_items, signals, position,
                 invoked, accepted, endReason>>

\* crawl(), lines 407-410: __aenter__ raised and crawl() re-raises
SessionEnterFails ==
  /\ pc = "entering"
  /\ session' = "failed"
  /\ pc' = "done"
  /\ endReason' = "enter_error"
  /\ UNCHANGED <<otherVars, variant, unreleased, failed, loaded, store, runs, max_items, signals, memory, position,
                 invoked, accepted>>

\* crawl(), lines 412-413: pd.read_csv of the existing CSV raises (line 160 is
\* not guarded); the loads are outside the try of line 420, so crawl() is left
\* without its finally block
LoadExistingFails ==
  /\ pc = "entering"
  /\ variant = "csv_append"
  /\ csvFile.exists
  /\ session' = "live"
  /\ pc' = "done"
  /\ endReason' = "load_error"
  /\ UNCHANGED <<otherVars, variant, unreleased, failed, loaded, store, runs, max_items, signals, memory,
                 position, invoked, accepted>>

\* crawl(), line 418: writing the header of a new processed_urls.csv raises (line
\* 207 is not guarded); the existing data was loaded before
LedgerCreateFails ==
  /\ pc = "entering"
  /\ ~ledgerFile.exists
  /\ ~(variant = "csv_append" /\ csvFile = EmptyCsv)
  /\ session' = "live"
  /\ IF IsJson(variant)
     THEN /\ seen_items' = LoadedJsonKeys(jsonFiles)
          /\ all_items' = all_items
     ELSE /\ seen_items' = seen_items \cup LoadedCsvKeys(csvFile)
          /\ all_items' = all_items \o LoadedCsvItems(csvFile)
  /\ pc' = "done"
  /\ endReason' = "load_error"
  /\ UNCHANGED <<otherVars, variant, unreleased, failed, loaded, store, runs, max_items, signals,
                 processed_urls_cache, position, invoked, accepted>>

\* crawl(), line 422: get_urls_to_crawl returned a list
FetchTasks ==
  /\ pc = "fetch"
  /\ \E tasks \in TaskLists : urls_to_crawl' = tasks
  /\ i' = 1
  /\ pc' = "loop"
  /\ UNCHANGED <<otherVars, variant, unreleased, failed, loaded, store, runs, max_items, signals, session, memory, fetchNo,
                 attempt, invoked, accepted, endReason>>

\* a failure of the task fetcher that leaves crawl() without its finally block
FetchTasksFailsNoFinally ==
  /\ pc = "fetch"
  /\ pc' = "done"
  /\ endReason' = "fetcher_error"
  /\ UNCHANGED <<otherVars, variant, unreleased, failed, loaded, store, runs, max_items, signals, session,
                 memory, position, invoked, accepted>>

\* crawl(), lines 422 and 496-498: get_urls_to_crawl raised
FetchTasksFails ==
  /\ pc = "fetch"
  /\ pc' = "finalize"
  /\ endReason' = "fetcher_error"
  /\ UNCHANGED <<otherVars, variant, unreleased, failed, loaded, store, runs, max_items, signals, session, memory, position,
                 invoked, accepted>>

\* ------------------------------------------------------- the loop of crawl()
InLoop == pc = "loop" /\ i <= Len(urls_to_crawl)

\* line 435
CapHit == max_items # NoCap /\ Len(all_items) >= max_items

\* line 449
InLedger == item_url(CurrentItem) \in processed_urls_cache

\* lines 456-457
SeenBefore ==
  /\ \A j \in 1..Len(key_fields) : key_fields[j] \in DOMAIN CurrentItem
  /\ is_duplicate(CurrentItem, seen_items)

\* a loop that never looks at stop_event
StopRequestedIgnored == FALSE

\* line 440: the check that stops the loop once shutdown is requested
StopRequested == stop_event

\* the for loop of line 426 has no item left
LoopExhausted ==
  /\ pc = "loop"
  /\ i > Len(urls_to_crawl)
  /\ pc' = "finalize"
  /\ endReason' = "exhausted"
  /\ UNCHANGED <<otherVars, variant, unreleased, failed, loaded, store, runs, max_items, signals, session, memory, position,
                 invoked, accepted>>

\* lines 435-437
CapReached ==
  /\ InLoop
  /\ CapHit
  /\ pc' = "finalize"
  /\ endReason' = "cap"
  /\ UNCHANGED <<otherVars, variant, unreleased, failed, loaded, store, runs, max_items, signals, session, memory, position,
                 invoked, accepted>>

\* lines 440-442
StopObserved ==
  /\ InLoop
  /\ ~CapHit
  /\ StopRequested
  /\ pc' = "finalize"
  /\ endReason' = "stop"
  /\ UNCHANGED <<otherVars, variant, unreleased, failed, loaded, store, runs, max_items, signals, session, memory, position,
                 invoked, accepted>>

\* lines 448-451: continue, which also passes over the pacing wait
SkipLedger ==
  /\ InLoop
  /\ ~CapHit
  /\ ~StopRequested
  /\ InLedger
  /\ i' = i + 1
  /\ UNCHANGED <<otherVars, variant, unreleased, failed, loaded, store, pc, runs, max_items, signals, session, memory,
                 urls_to_crawl, fetchNo, attempt, invoked, accepted, endReason>>

\* lines 456-459
SkipDuplicate ==
  /\ InLoop
  /\ ~CapHit
  /\ ~StopRequested
  /\ ~InLedger
  /\ SeenBefore
  /\ i' = i + 1
  /\ UNCHANGED <<otherVars, variant, unreleased, failed, loaded, store, pc, runs, max_items, signals, session, memory,
                 urls_to_crawl, fetchNo, attempt, invoked, accepted, endReason>>

\* lines 473-492, after process_item returned: result is {} for None and {d} for
\* the dict d; items is all_items as process_item left it
AfterItem(result, items) ==
  /\ all_items' = IF result # {} /\ IsJson(variant)
                  THEN Append(items, CHOOSE d \in result : TRUE)
                  ELSE items
  /\ accepted' = accepted \cup result
  /\ IF i < Len(urls_to_crawl)
     THEN pc' = "pace" /\ i' = i
     ELSE pc' = "loop" /\ i' = i + 1

\* the exception process_item let through reaches line 496
ItemRaises ==
  /\ pc' = "finalize"
  /\ endReason' = "task_error"

\* lines 467-472: the ledger entry is added and process_item is called; in the
\* per-item crawlers it returns at once when the output file is there
StartProcess ==
  /\ InLoop
  /\ ~CapHit
  /\ ~StopRequested
  /\ ~InLedger
  /\ ~SeenBefore
  /\ \E written \in BOOLEAN :
       LET url == item_url(CurrentItem)
           path == get_detailed_item_filepath(CurrentItem.title)
           cache1 == LedgerCacheAfterAdd(processed_urls_cache, url, written)
           file1 == LedgerFileAfterAdd(ledgerFile, processed_urls_cache, url, written)
       IN IF IsJson(variant) /\ PathExists(jsonFiles, path)
          THEN \E again \in BOOLEAN :
                 LET retry == variant = "json_inline"
                 IN /\ ledgerFile' = IF retry
                                     THEN LedgerFileAfterAdd(file1, cache1, url, again)
                                     ELSE file1
                    /\ processed_urls_cache' = IF retry
                                               THEN LedgerCacheAfterAdd(cache1, url, again)
                                               ELSE cache1
                    /\ AfterItem({}, all_items)
                    /\ UNCHANGED <<fetchNo, attempt, endReason>>
          ELSE /\ ledgerFile' = file1
               /\ processed_urls_cache' = cache1
               /\ pc' = IF variant = "json_deferred" THEN "direct" ELSE "retry"
               /\ fetchNo' = 1
               /\ attempt' = 0
               /\ UNCHANGED <<all_items, accepted, i, endReason>>
  /\ invoked' = Append(invoked, i)
  /\ UNCHANGED <<otherVars, variant, unreleased, failed, loaded, csvFile, jsonFiles, runs, max_items, signals, session,
                 seen_items, urls_to_crawl>>

\* lines 484-492: the pacing wait ran its full delay
PaceTimeout ==
  /\ pc = "pace"
  /\ ~stop_event
  /\ i' = i + 1
  /\ pc' = "loop"
  /\ UNCHANGED <<otherVars, variant, unreleased, failed, loaded, store, runs, max_items, signals, session, memory,
                 urls_to_crawl, fetchNo, attempt, invoked, accepted, endReason>>

\* lines 488-490: stop_event.wait() returned, the loop is left
PaceInterrupted ==
  /\ pc = "pace"
  /\ stop_event
  /\ pc' = "finalize"
  /\ endReason' = "stop"
  /\ UNCHANGED <<otherVars, variant, unreleased, failed, loaded, store, runs, max_items, signals, session, memory, position,
                 invoked, accepted>>

\* lines 499-507: the session is exited, an error of __aexit__ is logged
Finalize ==
  /\ pc = "finalize"
  /\ session' = "closed"
  /\ loaded' = NothingLoaded
  /\ unreleased' = FALSE
  /\ pc' = "done"
  /\ i' = 1
  /\ fetchNo' = 1
  /\ attempt' = 0
  /\ UNCHANGED <<otherVars, variant, failed, store, runs, max_items, signals, memory, urls_to_crawl,
                 invoked, accepted, endReason>>

\* ------------------------------------------- _run_crawler_with_retries
\* a budget that allows one attempt more
LastAttemptLate == attempt = max_retries

\* a budget that is spent by the first attempt
LastAttemptFirst == attempt = 0

\* a budget that is never spent
LastAttemptNever == FALSE

LastAttempt == attempt = max_retries - 1

\* a cancellation that is also raised into an attempt that is in flight
AttemptCancelledInFlight ==
  /\ pc \in {"retry", "inflight"}
  /\ stop_event
  /\ pc' = "finalize"
  /\ endReason' = "cancelled"
  /\ UNCHANGED <<otherVars, variant, unreleased, failed, loaded, store, runs, max_items, signals, session, memory,
                 position, invoked, accepted>>

\* lines 127-129: the loop starts no attempt once shutdown is requested; the
\* CancelledError passes every "except Exception" and reaches line 494
AttemptCancelled ==
  /\ pc = "retry"
  /\ stop_event
  /\ pc' = "finalize"
  /\ endReason' = "cancelled"
  /\ UNCHANGED <<otherVars, variant, unreleased, failed, loaded, store, runs, max_items, signals, session, memory, position,
                 invoked, accepted>>

\* line 133: crawler.arun is awaited
AttemptStart ==
  /\ pc = "retry"
  /\ ~stop_event
  /\ pc' = "inflight"
  /\ UNCHANGED <<otherVars, variant, unreleased, failed, loaded, store, runs, max_items, signals, session, memory, position,
                 invoked, accepted, endReason>>

\* AngelTravelCrawler.process_item, lines 106-148, with the offer of the page
AppendOffers(price) ==
  LET offer == Offer(CurrentItem, price)
  IN /\ csvFile' = IF is_complete(offer) THEN append_item_to_csv(csvFile, offer) ELSE csvFile
     /\ AfterItem({}, all_items)
     /\ UNCHANGED <<jsonFiles, ledgerFile, processed_urls_cache, fetchNo, attempt, endReason>>

\* DariTourExcursionsDetailedCrawler.process_item, lines 121-134
WriteDetails ==
  LET name == CurrentItem.title
      data == [offer_name |-> name]
      path == get_detailed_item_filepath(name)
      url == item_url(CurrentItem)
  IN IF name # <<>>
     THEN \E written \in BOOLEAN :
            /\ jsonFiles' = save_to_json(jsonFiles, data, path)
            /\ ledgerFile' = LedgerFileAfterAdd(ledgerFile, processed_urls_cache, url, written)
            /\ processed_urls_cache' = LedgerCacheAfterAdd(processed_urls_cache, url, written)
            /\ AfterItem({[data |-> data, path |-> path]}, all_items)
            /\ UNCHANGED <<csvFile, fetchNo, attempt, endReason>>
     ELSE /\ AfterItem({}, all_items)
          /\ UNCHANGED <<store, processed_urls_cache, fetchNo, attempt, endReason>>

\* lines 133-135: arun returned content, and process_item goes on with it
ArunContent ==
  /\ pc = "inflight"
  /\ IF fetchNo < FetchesPerItem(variant)
     THEN /\ fetchNo' = fetchNo + 1
          /\ attempt' = 0
          /\ pc' = "retry"
          /\ UNCHANGED <<store, memory, i, accepted, endReason>>
     ELSE /\ IF variant = "csv_append"
             THEN \E price \in PriceOutcomes : AppendOffers(price)
             ELSE WriteDetails
          /\ UNCHANGED seen_items
  /\ UNCHANGED <<otherVars, variant, unreleased, failed, loaded, runs, max_items, signals, session, urls_to_crawl, invoked>>

\* the failure of the retry loop as process_item sees it: AngelTravelCrawler
\* catches it (line 144) and returns None, the others let it through
RetryLoopRaises ==
  IF variant = "csv_append"
  THEN /\ AfterItem({}, all_items)
       /\ UNCHANGED endReason
  ELSE /\ ItemRaises
       /\ UNCHANGED <<all_items, accepted, i>>

\* lines 134-137: arun returned nothing usable; before the last attempt the loop
\* goes round at once, on the last attempt line 137 raises into line 138
ArunNoContent ==
  /\ pc = "inflight"
  /\ IF LastAttempt
     THEN pc' = "reinit" /\ attempt' = attempt
     ELSE pc' = "retry" /\ attempt' = attempt + 1
  /\ UNCHANGED <<otherVars, variant, unreleased, failed, loaded, store, runs, max_items, signals, session, memory,
                 urls_to_crawl, i, fetchNo, invoked, accepted, endReason>>

\* lines 138-146: arun raised
ArunRaises ==
  /\ pc = "inflight"
  /\ pc' = IF LastAttempt THEN "reinit" ELSE "backoff"
  /\ UNCHANGED <<otherVars, variant, unreleased, failed, loaded, store, runs, max_items, signals, session, memory, position,
                 invoked, accepted, endReason>>

\* line 143: asyncio.sleep(retry_delay) returned
BackoffDone ==
  /\ pc = "backoff"
  /\ attempt' = attempt + 1
  /\ pc' = "retry"
  /\ UNCHANGED <<otherVars, variant, unreleased, failed, loaded, store, runs, max_items, signals, session, memory,
                 urls_to_crawl, i, fetchNo, invoked, accepted, endReason>>

\* lines 86-100 and 145-146: the session is replaced, then the failure is raised.
\* An __aexit__ that raises (line 93) has not released the old session for
\* certain: it may still be live when the new one is created.  When __aenter__
\* of the new session raises, line 100 raises that error in place of the
\* failure of the fetch.
Reinitialize ==
  /\ pc = "reinit"
  /\ failed' = FailedAfter(CurrentItem)
  /\ \E released \in BOOLEAN : unreleased' = (unreleased \/ ~released)
  /\ \E entered \in BOOLEAN : session' = IF entered THEN "live" ELSE "failed"
  /\ RetryLoopRaises
  /\ UNCHANGED <<otherVars, variant, loaded, store, runs, max_items, signals, seen_items,
                 processed_urls_cache, urls_to_crawl, fetchNo, attempt, invoked>>

\* ---------------------- AngelTravelDetailedCrawler._get_main_and_program_html
\* lines 158-226: a fetch by crawler.arun returned content; after the third,
\* lines 138-140 build the record and return {data, path} without writing it
DirectContent ==
  /\ pc = "direct"
  /\ IF fetchNo < FetchesPerItem(variant)
     THEN /\ fetchNo' = fetchNo + 1
          /\ UNCHANGED <<pc, all_items, accepted, i>>
     ELSE LET name == CurrentItem.title
              data == [offer_name |-> name]
              path == get_detailed_item_filepath(name)
          IN /\ AfterItem(IF name # <<>> THEN {[data |-> data, path |-> path]} ELSE {},
                          all_items)
             /\ UNCHANGED fetchNo
  /\ UNCHANGED <<otherVars, variant, unreleased, failed, loaded, store, runs, max_items, signals, session, seen_items,
                 processed_urls_cache, urls_to_crawl, attempt, invoked, endReason>>

\* lines 160-162, 189-191, 228-230: the first or second fetch failed and
\* process_item returns None (line 122); lines 224-226 and 245-247: the third
\* failed, the tabs page is None and parsing it raises out of process_item
DirectFails ==
  /\ pc = "direct"
  /\ failed' = FailedAfter(CurrentItem)
  /\ IF fetchNo < FetchesPerItem(variant)
     THEN /\ AfterItem({}, all_items)
          /\ UNCHANGED endReason
     ELSE /\ ItemRaises
          /\ UNCHANGED <<all_items, accepted, i>>
  /\ UNCHANGED <<otherVars, variant, unreleased, loaded, store, runs, max_items, signals, session, seen_items,
                 processed_urls_cache, urls_to_crawl, fetchNo, attempt, invoked>>

\* ------------------------------------------------------------ the signal
\* a handler that sets stop_event and arms no timer
SignalHandlerNoTimer ==
  /\ handlerInstalled
  /\ pc # "killed"
  /\ ~stop_event
  /\ stop_event' = TRUE
  /\ UNCHANGED <<otherVars, variant, unreleased, failed, loaded, store, pc, runs, max_items, handlerInstalled,
                 exitTimer, session, memory, position, invoked, accepted, endReason>>

\* BaseCrawler._signal_handler
SignalHandler ==
  /\ handlerInstalled
  /\ pc # "killed"
  /\ ~(stop_event /\ exitTimer)
  /\ stop_event' = TRUE
  /\ exitTimer' = TRUE
  /\ UNCHANGED <<otherVars, variant, unreleased, failed, loaded, store, pc, runs, max_items, handlerInstalled, session, memory,
                 position, invoked, accepted, endReason>>

\* the places where crawl() is suspended and the event loop runs its timers
Suspended ==
  pc \in {"entering", "fetch", "inflight", "backoff", "reinit", "direct", "pace",
          "finalize", "done"}

\* line 108: the timer fires and os._exit(1) ends the process; what the process
\* held in memory is gone, the files stay
ForcedExit ==
  /\ exitTimer
  /\ Suspended
  /\ loaded' = NothingLoaded
  /\ unreleased' = FALSE
  /\ pc' = "killed"
  /\ session' = "closed"
  /\ seen_items' = {}
  /\ all_items' = <<>>
  /\ processed_urls_cache' = {}
  /\ urls_to_crawl' = <<>>
  /\ i' = 1
  /\ fetchNo' = 1
  /\ attempt' = 0
  /\ invoked' = <<>>
  /\ accepted' = {}
  /\ UNCHANGED <<otherVars, variant, failed, store, runs, max_items, signals, endReason>>

\* a new process builds a new crawler over the same output path (__init__)
NewProcess ==
  /\ pc \in {"done", "killed"}
  /\ runs < MaxRuns
  /\ loaded' = NothingLoaded
  /\ unreleased' = FALSE
  /\ pc' = "idle"
  /\ handlerInstalled' = FALSE
  /\ stop_event' = FALSE
  /\ exitTimer' = FALSE
  /\ session' = "new"
  /\ seen_items' = {}
  /\ all_items' = <<>>
  /\ processed_urls_cache' = {}
  /\ urls_to_crawl' = <<>>
  /\ i' = 1
  /\ fetchNo' = 1
  /\ attempt' = 0
  /\ invoked' = <<>>
  /\ accepted' = {}
  /\ endReason' = "none"
  /\ UNCHANGED <<otherVars, variant, failed, store, runs, max_items>>

\* BaseCrawler.save_data, called by the owner of the crawler after crawl()
SaveData ==
  /\ pc = "done"
  /\ IF IsJson(variant)
     THEN /\ jsonFiles' = LET Put[k \in 0..Len(all_items)] ==
                                IF k = 0 THEN jsonFiles
                                ELSE save_to_json(Put[k - 1], all_items[k].data,
                                                  all_items[k].path)
                          IN Put[Len(all_items)]
          /\ UNCHANGED csvFile
     ELSE /\ csvFile' = save_data_csv(csvFile, all_items)
          /\ UNCHANGED jsonFiles
  /\ <<csvFile', jsonFiles'>> # <<csvFile, jsonFiles>>
  /\ UNCHANGED <<otherVars, variant, unreleased, failed, loaded, ledgerFile, pc, runs, max_items, signals, session, memory,
                 position, invoked, accepted, endReason>>

\* every step but the call of crawl()
Step ==
  \/ SessionEntered
  \/ SessionEnterFails
  \/ LoadExistingFails
  \/ LedgerCreateFails
  \/ FetchTasks
  \/ FetchTasksFails
  \/ LoopExhausted
  \/ CapReached
  \/ StopObserved
  \/ SkipLedger
  \/ SkipDuplicate
  \/ StartProcess
  \/ AttemptCancelled
  \/ AttemptStart
  \/ ArunContent
  \/ ArunNoContent
  \/ ArunRaises
  \/ BackoffDone
  \/ Reinitialize
  \/ DirectContent
  \/ DirectFails
  \/ PaceTimeout
  \/ PaceInterrupted
  \/ Finalize
  \/ SignalHandler
  \/ ForcedExit
  \/ NewProcess
  \/ SaveData

Next == StartCrawl \/ Step

Spec == Init /\ [][Next]_vars

\* -------------------------------------------------- one process, with fairness
MaxFairRuns == 1   \* calls of crawl() in the specification with fairness

\* the steps crawl() takes without awaiting: they run as soon as they can
SyncStep ==
  \/ LoopExhausted
  \/ CapReached
  \/ StopObserved
  \/ SkipLedger
  \/ SkipDuplicate
  \/ StartProcess
  \/ AttemptCancelled
  \/ AttemptStart

\* what an earlier run of AngelTravelCrawler that accepted one offer leaves behind
PriorCsv == [exists |-> TRUE, rows |-> <<WriteRow(Offer(tA, <<"9">>))>>]
PriorLedger == [exists |-> TRUE, rows |-> <<item_url(tA)>>]

\* the process starts over an empty output path, over what an earlier run left,
\* or over a sink file that holds nothing
FairInit ==
  \/ Init
  \/ InitOver(PriorCsv, PriorLedger) /\ variant = "csv_append" /\ OtherIdle
  \/ InitOver(EmptyCsv, NoLedger) /\ variant = "csv_append" /\ OtherIdle

FairNext == (runs < MaxFairRuns /\ StartCrawl) \/ Step

\* the event loop fires a due timer once the coroutine is suspended, and the
\* interpreter runs the code between two awaits to its end
FairSpec == FairInit /\ [][FairNext]_vars /\ WF_vars(ForcedExit) /\ WF_vars(SyncStep)

\* the steps in which an extractor call or a sleep that crawl() awaits returns
AwaitReturns ==
  \/ FetchTasks
  \/ FetchTasksFails
  \/ ArunContent
  \/ ArunNoContent
  \/ ArunRaises
  \/ BackoffDone
  \/ Reinitialize
  \/ DirectContent
  \/ DirectFails
  \/ PaceTimeout
  \/ PaceInterrupted

\* one process in which, besides, every extractor call and every sleep returns
ReturnSpec ==
  FairInit /\ [][FairNext]_vars /\ WF_vars(ForcedExit) /\ WF_vars(SyncStep) /\ WF_vars(AwaitReturns)

\* ------------------------------------------------------- waits between calls
\* The three waits the crawlers compute: the backoff of _run_crawler_with_retries
\* (base_crawler.py, line 141), the rate-limit wait of crawl_dari_tour_offers
\* (dari_tour_crawlers.py, lines 218-247) and its pacing delay (lines 155-165).
\* Durations are in hundredths of a second.
MaxProcessed == 11   \* largest processed_count a pacing delay is computed for

\* dari_tour_crawlers.py, line 130: max_retries = 3
rate_limit_max_retries == 3

\* lines 156-157: base_delay = 5.0, max_delay = 30.0
base_delay == 500
max_delay == 3000

RECURSIVE Pow2(_)
Pow2(k) == IF k = 0 THEN 1 ELSE 2 * Pow2(k - 1)

Min(a, b) == IF a <= b THEN a ELSE b

\* the draws of random.uniform(0, 1) and random.random(), and of
\* random.uniform(0.8, 1.2)
UnitDraws == {0, 50, 99}
PacingDraws == {80, 100, 120}

Digits == <<"0", "1", "2", "3", "4", "5", "6", "7", "8", "9">>
IsDigit(c) == \E d \in 1..10 : Digits[d] = c
DigitVal(c) == (CHOOSE d \in 1..10 : Digits[d] = c) - 1

\* the longest run of digits s starts with
RECURSIVE DigitRun(_)
DigitRun(s) == IF s # <<>> /\ IsDigit(Head(s)) THEN <<Head(s)>> \o DigitRun(Tail(s)) ELSE <<>>

RECURSIVE IntVal(_)
IntVal(ds) == IF ds = <<>> THEN 0 ELSE 10 * IntVal(SubSeq(ds, 1, Len(ds) - 1)) + DigitVal(ds[Len(ds)])

\* re.search found nothing
NoMatch == -1

\* (\d+\.?\d*)s matched at the start of s: float(match.group(1)) in hundredths,
\* for at most two decimals.  The classes of digits, "." and "s" are disjoint,
\* so the greedy match is the only candidate.
MatchSeconds(s) ==
  LET whole == DigitRun(s)
      r1 == SubSeq(s, Len(whole) + 1, Len(s))
      r2 == IF r1 # <<>> /\ Head(r1) = "." THEN Tail(r1) ELSE r1
      frac == DigitRun(r2)
      r3 == SubSeq(r2, Len(frac) + 1, Len(r2))
  IN IF whole # <<>> /\ r3 # <<>> /\ Head(r3) = "s"
     THEN 100 * IntVal(whole)
            + (IF Len(frac) >= 1 THEN 10 * DigitVal(frac[1]) ELSE 0)
            + (IF Len(frac) >= 2 THEN DigitVal(frac[2]) ELSE 0)
     ELSE NoMatch

TryAgainIn == "Please try again in "

\* line 237: re.search(r"Please try again in (\d+\.?\d*)s", str(e)), at the
\* leftmost position that matches
RECURSIVE precise_wait_time(_)
precise_wait_time(msg) ==
  IF msg = <<>> THEN NoMatch
  ELSE IF Head(msg) = TryAgainIn /\ MatchSeconds(Tail(msg)) # NoMatch
       THEN MatchSeconds(Tail(msg))
       ELSE precise_wait_time(Tail(msg))

\* line 230: "rate_limit" in str(e).lower() or "429" in str(e)
IsRateLimit(msg) ==
  LET lower(w) == IF w = "Rate_Limit" THEN "rate_limit" ELSE w
  IN \/ \E k \in 1..Len(msg) : lower(msg[k]) = "rate_limit"
     \/ \E k \in 1..Len(msg) : msg[k] = "429"

\* the messages crawler.arun raises with: words, and the characters after
\* "Please try again in "
Errors ==
  { <<"timeout">>,
    <<"Rate_Limit">>,
    <<"429">>,
    <<"rate_limit", TryAgainIn, "7", ".", "5", "s">>,
    <<"429", TryAgainIn, "1", "2", "s">>,
    <<"rate_limit", TryAgainIn, "s">>,
    <<"timeout", TryAgainIn, "4", "s">> }

\* base_crawler.py, line 141: retry_delay = 2 ** attempt + random.uniform(0, 1)
retry_delay(att, draw) == 100 * Pow2(att) + draw

\* dari_tour_crawlers.py, lines 232-241: (2 ** retry_count) + random.random(),
\* replaced by the time the message names
wait_time_to_use(retry_count, draw, msg) ==
  IF precise_wait_time(msg) # NoMatch
  THEN precise_wait_time(msg)
  ELSE 100 * Pow2(retry_count) + draw

\* a pacing delay that is not capped
pacing_delay_uncapped(processed_count, draw, manyOffers) ==
  LET d == (base_delay * Pow2(processed_count \div 5) * draw) \div 100
  IN IF manyOffers THEN (d * 3) \div 2 ELSE d

\* dari_tour_crawlers.py, lines 161-165
pacing_delay(processed_count, draw, manyOffers) ==
  LET d == Min((base_delay * Pow2(processed_count \div 5) * draw) \div 100, max_delay)
  IN IF manyOffers THEN Min((d * 3) \div 2, max_delay) ELSE d

\* one of the loops starts
DelayInit ==
  /\ policy \in {"retry", "rate_limit", "pacing"}
  /\ lpc = "call"
  /\ count = 0
  /\ jitter \in (IF policy = "pacing" THEN PacingDraws ELSE UnitDraws)
  /\ many \in (IF policy = "pacing" THEN BOOLEAN ELSE {FALSE})
  /\ error = <<>>
  /\ delay = NoDelay
  /\ calls = 0

\* crawler.arun returned: base_crawler.py line 135, dari_tour_crawlers.py line 227
ArunReturns ==
  /\ policy \in {"retry", "rate_limit"}
  /\ lpc = "call"
  /\ calls' = calls + 1
  /\ lpc' = "success"
  /\ UNCHANGED <<crawlVars, offersVars, cliVars, excursionVars, policy, count, jitter, many, error, delay>>

\* base_crawler.py, lines 138-146: crawler.arun raised e; the wait does not
\* depend on e
RetryArunRaises ==
  /\ policy = "retry"
  /\ lpc = "call"
  /\ \E e \in Errors : error' = e
  /\ calls' = calls + 1
  /\ IF count < max_retries - 1
     THEN delay' = retry_delay(count, jitter) /\ lpc' = "sleep"
     ELSE delay' = delay /\ lpc' = "raised"
  /\ UNCHANGED <<crawlVars, offersVars, cliVars, excursionVars, policy, count, jitter, many>>

\* line 143 returned, the for loop of line 125 goes on
RetrySleepDone ==
  /\ policy = "retry"
  /\ lpc = "sleep"
  /\ count' = count + 1
  /\ lpc' = "call"
  /\ UNCHANGED <<crawlVars, offersVars, cliVars, excursionVars, policy, jitter, many, error, delay, calls>>

\* dari_tour_crawlers.py, lines 229-249: crawler.arun raised e
RateLimitArunRaises ==
  /\ policy = "rate_limit"
  /\ lpc = "call"
  /\ \E e \in Errors :
       /\ error' = e
       /\ IF IsRateLimit(e)
          THEN /\ count' = count + 1
               /\ delay' = wait_time_to_use(count + 1, jitter, e)
               /\ lpc' = "sleep"
          ELSE /\ lpc' = "raised"
               /\ UNCHANGED <<count, delay>>
  /\ calls' = calls + 1
  /\ UNCHANGED <<crawlVars, offersVars, cliVars, excursionVars, policy, jitter, many>>

\* line 247 returned; line 222: while retry_count < max_retries and not success
RateLimitSleepDone ==
  /\ policy = "rate_limit"
  /\ lpc = "sleep"
  /\ lpc' = IF count < rate_limit_max_retries THEN "call" ELSE "skipped"
  /\ UNCHANGED <<crawlVars, offersVars, cliVars, excursionVars, policy, count, jitter, many, error, delay, calls>>

\* lines 298-302, 315-318: an offer element adds added offers to processed_count
OfferProcessed ==
  /\ policy = "pacing"
  /\ lpc = "call"
  /\ \E added \in 0..2 :
       /\ count + added <= MaxProcessed
       /\ count' = count + added
  /\ lpc' = "next"
  /\ UNCHANGED <<crawlVars, offersVars, cliVars, excursionVars, policy, jitter, many, error, delay, calls>>

\* lines 155-168: the delay before the next offer element
PacingWait ==
  /\ policy = "pacing"
  /\ lpc = "next"
  /\ delay' = IF count > 0 THEN pacing_delay(count, jitter, many) ELSE delay
  /\ lpc' = "call"
  /\ UNCHANGED <<crawlVars, offersVars, cliVars, excursionVars, policy, count, jitter, many, error, calls>>

DelayNext ==
  \/ ArunReturns
  \/ RetryArunRaises
  \/ RetrySleepDone
  \/ RateLimitArunRaises
  \/ RateLimitSleepDone
  \/ OfferProcessed
  \/ PacingWait

\* the crawler object is idle while a wait policy is exercised
CrawlerIdle == InitOver(NoCsv, NoLedger) /\ variant = "csv_append"

DelaySpecInit == CrawlerIdle /\ DelayInit /\ OffersIdle /\ CliIdle /\ ExcursionsIdle

DelaySpec == DelaySpecInit /\ [][DelayNext]_vars

\* ------------------------------------------------- crawl_dari_tour_offers
\* The function of dari_tour_crawlers.py that keeps its offers in one CSV:
\* it loads the file (lines 59-63), extracts offers, and rewrites the file from
\* all_offers with save_offers_to_csv (line 408).  A row is its name cell.
MaxOffers == 2   \* most offers one call extracts
MaxRows == 3     \* most rows the CSV of offers grows to

\* the names the extraction gives an offer
OfferNames == {<<"a">>, <<"b">>, <<>>}

\* csv.DictWriter on one cell: str(value), the float NaN is written as nan
DictWriterCell(v) == PyStr(v)

\* utils.data_utils.save_offers_to_csv: the file is opened with mode "w" and
\* holds the offers passed, nothing else
save_offers_to_csv(file, offerList) ==
  IF offerList = <<>> THEN file
  ELSE [exists |-> TRUE, rows |-> [k \in 1..Len(offerList) |-> DictWriterCell(offerList[k])]]

\* lines 52-63: the locals are set, an existing file is read with pd.read_csv
OffersLoad ==
  /\ opc = "idle"
  /\ all_offers' = [k \in 1..Len(offersFile.rows) |-> ReadCsvCell(offersFile.rows[k])]
  /\ seen_names' = {ReadCsvCell(offersFile.rows[k]) : k \in 1..Len(offersFile.rows)}
  /\ offers' = <<>>
  /\ opc' = "crawl"
  /\ UNCHANGED <<crawlVars, delayVars, cliVars, excursionVars, offersFile>>

\* lines 298-302: an extracted offer whose name is new is kept
OfferExtracted ==
  /\ opc = "crawl"
  /\ Len(offers) < MaxOffers
  /\ Len(all_offers) + Len(offers) < MaxRows
  /\ \E name \in OfferNames :
       /\ name \notin seen_names
       /\ offers' = Append(offers, name)
       /\ seen_names' = seen_names \cup {name}
  /\ UNCHANGED <<crawlVars, delayVars, cliVars, excursionVars, offersFile, all_offers, opc>>

\* lines 367-369, 385-387: no offer was extracted, or an error: return, no save
OffersReturnEarly ==
  /\ opc = "crawl"
  /\ opc' = "idle"
  /\ UNCHANGED <<crawlVars, delayVars, cliVars, excursionVars, offersFile, all_offers, seen_names, offers>>

\* lines 372, 407-408: all_offers.extend(offers), then the file is rewritten
OffersSaved ==
  /\ opc = "crawl"
  /\ offers # <<>>
  /\ offersFile' = save_offers_to_csv(offersFile, all_offers \o offers)
  /\ opc' = "idle"
  /\ UNCHANGED <<crawlVars, delayVars, cliVars, excursionVars, all_offers, seen_names, offers>>

OffersNext == OffersLoad \/ OfferExtracted \/ OffersReturnEarly \/ OffersSaved

OffersInit == CrawlerIdle /\ DelayIdle /\ OffersIdle /\ CliIdle /\ ExcursionsIdle

OffersSpec == OffersInit /\ [][OffersNext]_vars

\* ------------------------------------------- three tasks, one Fingerprint twice
\* One call of crawl() without a cap, in which get_urls_to_crawl returns three
\* tasks, the third with the Fingerprint of the first and another identifier,
\* every fetch returns content, every extracted offer is complete and the
\* ledger file can be written.
DupTaskLists ==
  LET ThreeTasks == {<<a, b, c>> : a \in TaskUniverse, b \in TaskUniverse, c \in TaskUniverse}
  IN {l \in ThreeTasks : /\ NormalizedItemKeys(l[3]) = NormalizedItemKeys(l[1])
                         /\ NormalizedItemKeys(l[2]) # NormalizedItemKeys(l[1])
                         /\ item_url(l[3]) # item_url(l[1])}

\* crawl(), line 401: the first call on the object, with max_items = None
StartCrawlNoCap == runs = 0 /\ StartCrawl /\ max_items' = NoCap

\* crawl(), line 422: get_urls_to_crawl returned the three tasks
FetchThree ==
  /\ pc = "fetch"
  /\ \E tasks \in DupTaskLists : urls_to_crawl' = tasks
  /\ i' = 1
  /\ pc' = "loop"
  /\ UNCHANGED <<otherVars, variant, unreleased, failed, loaded, store, runs, max_items, signals, session, memory, fetchNo,
                 attempt, invoked, accepted, endReason>>

\* lines 467-472 with a ledger file that takes the row
StartProcessLedgerWritten == StartProcess /\ item_url(CurrentItem) \in processed_urls_cache'

\* lines 133-135, the extracted offer carrying every required key
ArunContentComplete ==
  /\ ArunContent
  /\ (variant = "csv_append" /\ pc' # "retry")
       => \E price \in PriceOutcomes \ {None} :
            csvFile' = append_item_to_csv(csvFile, Offer(CurrentItem, price))

DupNext ==
  \/ StartCrawlNoCap
  \/ SessionEntered
  \/ FetchThree
  \/ StartProcessLedgerWritten
  \/ AttemptStart
  \/ ArunContentComplete
  \/ DirectContent
  \/ PaceTimeout
  \/ LoopExhausted
  \/ Finalize
  \/ SaveData

DupSpec == Init /\ [][DupNext]_vars

\* ------------------------------------------------------- the per-item sink
\* The files of the details directory as _save_data_json writes them under the
\* path of _get_detailed_item_filepath, and the keys _load_existing_data_json
\* reads back, for the names that begin with a letter over an alphabet of one
\* letter and two separators.
MaxNameLen == 3

SlugNames == {n \in SeqsUpTo({"a", " ", "-"}, MaxNameLen) : n # <<>> /\ Head(n) = "a"}

\* the Fingerprint of a Record of the per-item sink: its name, case-folded and
\* stripped
NamePrint(name) == Strip(Lower(name))

SlugInit == InitOver(NoCsv, NoLedger) /\ variant = "json_inline" /\ OtherIdle

\* _save_data_json(data, _get_detailed_item_filepath(item)), lines 317-326
SaveDetailedItem ==
  /\ \E name \in SlugNames :
       jsonFiles' = save_to_json(jsonFiles, [offer_name |-> name],
                                 get_detailed_item_filepath(name))
  /\ UNCHANGED <<otherVars, variant, unreleased, failed, loaded, csvFile, ledgerFile, pc, runs, max_items,
                 signals, session, memory, position, invoked, accepted, endReason>>

\* _load_existing_data_json, lines 176-190
LoadDetailedItems ==
  /\ seen_items' = LoadedJsonKeys(jsonFiles)
  /\ UNCHANGED <<otherVars, variant, unreleased, failed, loaded, store, pc, runs, max_items, signals,
                 session, all_items, processed_urls_cache, position, invoked, accepted,
                 endReason>>

SlugNext == SaveDetailedItem \/ LoadDetailedItems

SlugSpec == SlugInit /\ [][SlugNext]_vars

\* ------------------------------------------------------------ crawler_cli
\* main_cli: the active and the inactive configuration of the dynamic
\* crawlers, in memory and in the two JSON files.  A configuration is modelled
\* by its keys: Delete and Re-add move the value of a key unchanged.
CrawlerKeys == {"k1", "k2", "k3"}

\* json.dump(config, f): the text of a JSON object, one token per brace, comma
\* and member, the members in the order of the dict
json_dump(config) ==
  LET members == SelectSeq(<<"k1", "k2", "k3">>, LAMBDA key : key \in config)
      Join[n \in 0..Len(members)] ==
        IF n = 0 THEN <<>>
        ELSE Join[n - 1] \o (IF n > 1 THEN <<",">> ELSE <<>>) \o <<members[n]>>
  IN <<"{">> \o Join[Len(members)] \o <<"}">>

\* json.load(f): the members between the braces
json_load(text) == {text[n] : n \in {j \in 2..(Len(text) - 1) : text[j] # ","}}

\* a load that returns the empty configuration whatever the file holds
load_config_empty(file) == {}

\* load_crawlers_config, load_inactive_crawlers_config: {} for a missing file
load_config(file) == IF file.exists THEN json_load(file.text) ELSE {}

\* save_crawlers_config, save_inactive_crawlers_config: the file is opened
\* with mode 'w' and holds the dump alone
save_config(config) == [exists |-> TRUE, text |-> json_dump(config)]

\* crawlers_config.json as its author wrote it; inactive_crawlers.json, which
\* only main_cli writes, does not exist yet
CliInit ==
  /\ CrawlerIdle
  /\ DelayIdle
  /\ OffersIdle
  /\ ExcursionsIdle
  /\ dynamic_crawlers_config = {}
  /\ inactive_crawlers_config = {}
  /\ crawlersFile = save_config(CrawlerKeys)
  /\ inactiveFile = NoConfigFile
  /\ cpc = "idle"
  /\ moving = NoKey
  /\ interrupted = FALSE
  /\ raised = "none"
  /\ printed = <<>>

\* main_cli, lines 171-172: both configurations are loaded
CliStart ==
  /\ cpc \in {"idle", "exited"}
  /\ dynamic_crawlers_config' = load_config(crawlersFile)
  /\ inactive_crawlers_config' = load_config(inactiveFile)
  /\ cpc' = "menu"
  /\ UNCHANGED <<crawlVars, delayVars, offersVars, excursionVars, raised, printed, crawlersFile, inactiveFile, moving, interrupted>>

\* lines 229-256: the key leaves the active configuration, which is saved
DeleteRemoved ==
  /\ cpc = "menu"
  /\ \E key \in dynamic_crawlers_config :
       /\ dynamic_crawlers_config' = dynamic_crawlers_config \ {key}
       /\ moving' = key
  /\ crawlersFile' = save_config(dynamic_crawlers_config')
  /\ cpc' = "deleting"
  /\ UNCHANGED <<crawlVars, delayVars, offersVars, excursionVars, raised, printed, inactive_crawlers_config, inactiveFile, interrupted>>

\* lines 259-265: the key enters the inactive configuration, which is saved
DeleteStored ==
  /\ cpc = "deleting"
  /\ inactive_crawlers_config' = inactive_crawlers_config \cup {moving}
  /\ inactiveFile' = save_config(inactive_crawlers_config')
  /\ moving' = NoKey
  /\ cpc' = "menu"
  /\ UNCHANGED <<crawlVars, delayVars, offersVars, excursionVars, raised, printed, dynamic_crawlers_config, crawlersFile, interrupted>>

\* a Re-add that leaves the key in the inactive configuration
ReaddKeepsInactive ==
  /\ cpc = "menu"
  /\ \E key \in inactive_crawlers_config : moving' = key
  /\ inactiveFile' = save_config(inactive_crawlers_config)
  /\ cpc' = "readding"
  /\ UNCHANGED <<crawlVars, delayVars, offersVars, excursionVars, raised, printed, dynamic_crawlers_config, inactive_crawlers_config,
                 crawlersFile, interrupted>>

\* lines 268-295: the key leaves the inactive configuration, which is saved
ReaddRemoved ==
  /\ cpc = "menu"
  /\ \E key \in inactive_crawlers_config :
       /\ inactive_crawlers_config' = inactive_crawlers_config \ {key}
       /\ moving' = key
  /\ inactiveFile' = save_config(inactive_crawlers_config')
  /\ cpc' = "readding"
  /\ UNCHANGED <<crawlVars, delayVars, offersVars, excursionVars, raised, printed, dynamic_crawlers_config, crawlersFile, interrupted>>

\* lines 298-304: the key enters the active configuration, which is saved
ReaddStored ==
  /\ cpc = "readding"
  /\ dynamic_crawlers_config' = dynamic_crawlers_config \cup {moving}
  /\ crawlersFile' = save_config(dynamic_crawlers_config')
  /\ moving' = NoKey
  /\ cpc' = "menu"
  /\ UNCHANGED <<crawlVars, delayVars, offersVars, excursionVars, raised, printed, inactive_crawlers_config, inactiveFile, interrupted>>

\* lines 260 and 299: the second save raises, or the process is interrupted
\* before it; the error leaves main_cli and the process ends
CliInterrupted ==
  /\ cpc \in {"deleting", "readding"}
  /\ dynamic_crawlers_config' = {}
  /\ inactive_crawlers_config' = {}
  /\ moving' = NoKey
  /\ interrupted' = TRUE
  /\ cpc' = "exited"
  /\ UNCHANGED <<crawlVars, delayVars, offersVars, excursionVars, raised, printed, crawlersFile, inactiveFile>>

\* lines 222-225: choice 0
CliExit ==
  /\ cpc = "menu"
  /\ dynamic_crawlers_config' = {}
  /\ inactive_crawlers_config' = {}
  /\ cpc' = "exited"
  /\ UNCHANGED <<crawlVars, delayVars, offersVars, excursionVars, raised, printed, crawlersFile, inactiveFile, moving, interrupted>>

\* the exceptions crawl() of a crawler may raise: TypeError, another subclass of
\* Exception, and one that is a BaseException only
Raisable == {"TypeError", "RuntimeError", "CancelledError"}

\* a handler that reports success whatever was raised
handler_reports_success(e) == "success"

\* run_crawler, lines 116-123: the except clause that takes e and what it
\* prints; no clause takes an exception that is not an Exception
handler(e) ==
  CASE e = "TypeError" -> "arg_error"
    [] e = "RuntimeError" -> "error"
    [] OTHER -> "propagates"

\* main_cli, lines 307-315, and run_crawler, lines 112-114: a crawler of the
\* menu is chosen and its crawl() awaited
RunCrawler ==
  /\ cpc = "menu"
  /\ raised' = "none"
  /\ printed' = <<"running">>
  /\ cpc' = "crawling"
  /\ UNCHANGED <<crawlVars, delayVars, offersVars, excursionVars, dynamic_crawlers_config, inactive_crawlers_config,
                 crawlersFile, inactiveFile, moving, interrupted>>

\* run_crawler, line 115: crawl() returned
CrawlReturned ==
  /\ cpc = "crawling"
  /\ printed' = Append(printed, "success")
  /\ cpc' = "menu"
  /\ UNCHANGED <<crawlVars, delayVars, offersVars, excursionVars, dynamic_crawlers_config, inactive_crawlers_config,
                 crawlersFile, inactiveFile, moving, interrupted, raised>>

\* run_crawler, lines 116-123: crawl() raised; a handled error is printed and
\* run_crawler returns to the menu, any other leaves main_cli
CrawlRaised ==
  /\ cpc = "crawling"
  /\ \E e \in Raisable :
       /\ raised' = e
       /\ IF handler(e) = "propagates"
          THEN /\ cpc' = "exited"
               /\ dynamic_crawlers_config' = {}
               /\ inactive_crawlers_config' = {}
               /\ UNCHANGED printed
          ELSE /\ cpc' = "menu"
               /\ printed' = Append(printed, handler(e))
               /\ UNCHANGED <<dynamic_crawlers_config, inactive_crawlers_config>>
  /\ UNCHANGED <<crawlVars, delayVars, offersVars, excursionVars, crawlersFile, inactiveFile, moving, interrupted>>

CliNext ==
  \/ RunCrawler
  \/ CrawlReturned
  \/ CrawlRaised
  \/ CliStart
  \/ DeleteRemoved
  \/ DeleteStored
  \/ ReaddRemoved
  \/ ReaddStored
  \/ CliInterrupted
  \/ CliExit

CliSpec == CliInit /\ [][CliNext]_vars

\* ------------------------------------------------------------------ main.py
\* main(), lines 62-80: AngelTravelCrawler is built and its crawl() awaited,
\* then AngelTravelDetailedCrawler is built and its crawl() awaited.  Each
\* crawler writes below its own directory (FILES_DIR, DETAILS_DIR).  The
\* crawls of the two Dari Tour crawlers that follow (lines 82-88) do not touch
\* either instance.
MainInit == InitOver(NoCsv, NoLedger) /\ variant = "csv_append" /\ OtherIdle

\* crawl() raised instead of returning
CrawlRaisedOut == endReason \in {"enter_error", "load_error"}

\* lines 79-80: the first crawl() returned; the second crawler is built over an
\* empty DETAILS_DIR and crawl() is called on it without an argument
MainSecondCrawl ==
  /\ pc = "done"
  /\ variant = "csv_append"
  /\ ~CrawlRaisedOut
  /\ variant' = "json_deferred"
  /\ ledgerFile' = NoLedger
  /\ max_items' = NoCap
  /\ runs' = runs + 1
  /\ handlerInstalled' = TRUE
  /\ stop_event' = FALSE
  /\ session' = "new"
  /\ seen_items' = {}
  /\ all_items' = <<>>
  /\ processed_urls_cache' = {}
  /\ urls_to_crawl' = <<>>
  /\ i' = 1
  /\ fetchNo' = 1
  /\ attempt' = 0
  /\ invoked' = <<>>
  /\ accepted' = {}
  /\ endReason' = "none"
  /\ loaded' = NothingLoaded
  /\ unreleased' = FALSE
  /\ pc' = "entering"
  /\ UNCHANGED <<otherVars, failed, csvFile, jsonFiles, exitTimer>>

\* crawl() is called without a cap, and nothing is in seen_items that a task
\* of this run could match
MainNext ==
  \/ StartCrawlNoCap
  \/ MainSecondCrawl
  \/ SessionEntered
  \/ SessionEnterFails
  \/ LedgerCreateFails
  \/ FetchTasks
  \/ FetchTasksFails
  \/ LoopExhausted
  \/ StopObserved
  \/ SkipLedger
  \/ StartProcess
  \/ AttemptCancelled
  \/ AttemptStart
  \/ ArunContent
  \/ ArunNoContent
  \/ ArunRaises
  \/ BackoffDone
  \/ Reinitialize
  \/ DirectContent
  \/ DirectFails
  \/ PaceTimeout
  \/ PaceInterrupted
  \/ Finalize
  \/ SignalHandler
  \/ ForcedExit

MainSpec == MainInit /\ [][MainNext]_vars

\* ------------------------------------------- DariTourExcursionsCrawler
\* dari_tour_excursions_crawler.py: get_urls_to_crawl walks the destinations of
\* the main page, lists the offers of every destination that is not in
\* processed_destination_urls, and adds the destination to that set and to its
\* file at once; crawl() then extracts the offers returned.  Every run is a new
\* process over the files the earlier runs left.  The ledger check of crawl()
\* only removes tasks from the loop and is left out.
MaxExRuns == 2

xB == [title |-> <<"b">>, link |-> <<"v">>]
xC == [title |-> <<"c">>, link |-> <<"w">>]

\* the destination links of the main page, and the offers each page shows
Destinations == <<"d1", "d2">>
DestinationOffers == [d1 |-> <<tA, xB>>, d2 |-> <<xC>>]

\* _save_processed_destination_urls, lines 52-58
save_processed_destination_urls(urls) == [exists |-> TRUE, urls |-> urls]

\* _load_processed_destination_urls, lines 39-50
load_processed_destination_urls(file) == IF file.exists THEN file.urls ELSE {}

\* (normalized_offer_title, normalized_actual_url), lines 181-185
ListingKey(offer) == TupleKey(<<Strip(Lower(offer.title)), Strip(Lower(offer.link))>>)

\* the offers of a page that line 185 appends
RECURSIVE NotSeen(_, _)
NotSeen(found, seen) ==
  IF found = <<>> THEN <<>>
  ELSE (IF ListingKey(Head(found)) \in seen THEN <<>> ELSE <<Head(found)>>)
       \o NotSeen(Tail(found), seen)

\* all_offers_to_process[:max_items] under "if max_items", lines 199-201
Truncated(list, cap) == IF cap = NoCap THEN list ELSE SubSeq(list, 1, Min(cap, Len(list)))

\* what the excursion steps leave alone
excursionRest == <<delayVars, offersVars, cliVars, variant, jsonFiles, ledgerFile, signals, session,
                   processed_urls_cache, fetchNo, attempt, invoked, accepted, endReason, failed,
                   loaded, unreleased>>

ExcursionsInit == InitOver(NoCsv, NoLedger) /\ variant = "csv_append" /\ OtherIdle

\* __init__ (line 37) and crawl() up to the call of get_urls_to_crawl
ExcursionsStart ==
  /\ pc \in {"idle", "done"}
  /\ runs < MaxExRuns
  /\ runs' = runs + 1
  /\ \E mi \in MaxItemsChoices : max_items' = mi
  /\ processed_destination_urls' = load_processed_destination_urls(destFile)
  /\ seen_items' = LoadedCsvKeys(csvFile)
  /\ all_items' = LoadedCsvItems(csvFile)
  /\ all_offers_to_process' = <<>>
  /\ urls_to_crawl' = <<>>
  /\ dest' = 1
  /\ i' = 1
  /\ pc' = "main_page"
  /\ UNCHANGED <<excursionRest, csvFile, destFile>>

\* lines 94-102: the main page could not be fetched
MainPageFails ==
  /\ pc = "main_page"
  /\ pc' = "loop"
  /\ UNCHANGED <<excursionRest, csvFile, destFile, runs, max_items, processed_destination_urls, seen_items,
                 all_items, all_offers_to_process, urls_to_crawl, dest, i>>

\* lines 104-110
MainPageFetched ==
  /\ pc = "main_page"
  /\ pc' = "destinations"
  /\ UNCHANGED <<excursionRest, csvFile, destFile, runs, max_items, processed_destination_urls, seen_items,
                 all_items, all_offers_to_process, urls_to_crawl, dest, i>>

AtDestination == pc = "destinations" /\ dest <= Len(Destinations)

\* lines 119-121
DestinationSkipped ==
  /\ AtDestination
  /\ Destinations[dest] \in processed_destination_urls
  /\ dest' = dest + 1
  /\ UNCHANGED <<excursionRest, csvFile, destFile, runs, max_items, processed_destination_urls, seen_items,
                 all_items, all_offers_to_process, urls_to_crawl, i, pc>>

\* lines 146-154: the page of the destination could not be fetched
DestinationFails ==
  /\ AtDestination
  /\ Destinations[dest] \notin processed_destination_urls
  /\ dest' = dest + 1
  /\ UNCHANGED <<excursionRest, csvFile, destFile, runs, max_items, processed_destination_urls, seen_items,
                 all_items, all_offers_to_process, urls_to_crawl, i, pc>>

\* the destinations marked once the offers of Destinations[dest] are listed,
\* lines 195-196
MarkedAtListing == processed_destination_urls \cup {Destinations[dest]}

\* lines 156-196: the offers of the page are listed, the destination is marked
DestinationListed ==
  /\ AtDestination
  /\ Destinations[dest] \notin processed_destination_urls
  /\ all_offers_to_process' =
       all_offers_to_process \o NotSeen(DestinationOffers[Destinations[dest]], seen_items)
  /\ processed_destination_urls' = MarkedAtListing
  /\ destFile' = save_processed_destination_urls(processed_destination_urls')
  /\ dest' = dest + 1
  /\ UNCHANGED <<excursionRest, csvFile, runs, max_items, seen_items, all_items, urls_to_crawl, i, pc>>

\* lines 199-201
OffersReturned ==
  /\ pc = "destinations"
  /\ dest > Len(Destinations)
  /\ urls_to_crawl' = Truncated(all_offers_to_process, max_items)
  /\ pc' = "loop"
  /\ UNCHANGED <<excursionRest, csvFile, destFile, runs, max_items, processed_destination_urls, seen_items,
                 all_items, all_offers_to_process, dest, i>>

\* crawl(), lines 435-437
ExcursionsCapReached ==
  /\ pc = "loop"
  /\ i <= Len(urls_to_crawl)
  /\ CapHit
  /\ pc' = "done"
  /\ UNCHANGED <<excursionRest, csvFile, destFile, runs, max_items, processed_destination_urls, seen_items,
                 all_items, all_offers_to_process, urls_to_crawl, dest, i>>

\* process_item, lines 270-313: the offer is extracted, complete, and appended
ExcursionRecorded ==
  /\ pc = "loop"
  /\ i <= Len(urls_to_crawl)
  /\ ~CapHit
  /\ csvFile' = append_item_to_csv(csvFile, Offer(CurrentItem, <<"9">>))
  /\ i' = i + 1
  /\ UNCHANGED <<excursionRest, destFile, runs, max_items, processed_destination_urls, seen_items,
                 all_items, all_offers_to_process, urls_to_crawl, dest, pc>>

\* process_item, lines 277-284 and 315-326: nothing complete was extracted
ExcursionFails ==
  /\ pc = "loop"
  /\ i <= Len(urls_to_crawl)
  /\ ~CapHit
  /\ i' = i + 1
  /\ UNCHANGED <<excursionRest, csvFile, destFile, runs, max_items, processed_destination_urls, seen_items,
                 all_items, all_offers_to_process, urls_to_crawl, dest, pc>>

\* the loop of crawl() is over
ExcursionsExhausted ==
  /\ pc = "loop"
  /\ i > Len(urls_to_crawl)
  /\ pc' = "done"
  /\ UNCHANGED <<excursionRest, csvFile, destFile, runs, max_items, processed_destination_urls, seen_items,
                 all_items, all_offers_to_process, urls_to_crawl, dest, i>>

\* _signal_handler, lines 102-108: os._exit ends the process at an await
ExcursionsKilled ==
  /\ pc \in {"main_page", "destinations", "loop"}
  /\ pc' = "done"
  /\ UNCHANGED <<excursionRest, csvFile, destFile, runs, max_items, processed_destination_urls, seen_items,
                 all_items, all_offers_to_process, urls_to_crawl, dest, i>>

ExcursionsNext ==
  \/ ExcursionsStart
  \/ MainPageFails
  \/ MainPageFetched
  \/ DestinationSkipped
  \/ DestinationFails
  \/ DestinationListed
  \/ OffersReturned
  \/ ExcursionsCapReached
  \/ ExcursionRecorded
  \/ ExcursionFails
  \/ ExcursionsExhausted
  \/ ExcursionsKilled

ExcursionsSpec == ExcursionsInit /\ [][ExcursionsNext]_vars

\* ------------------------------------------------------------------ claims
\* what the claims call a Record of a task being in the result sink
RecordInSink(task) ==
  IF IsJson(variant)
  THEN PathExists(jsonFiles, get_detailed_item_filepath(task.title))
  ELSE NormalizedItemKeys(task) \in SinkPrints(csvFile)

\* the extraction of task failed in an earlier run
FailedEarlier(task) == \E f \in failed : f[1] = task /\ f[2] < runs

\* the task's identifier was in the ledger, or its Fingerprint in the tabular
\* sink, when this run loaded its state
LoadedCovers(task) ==
  \/ item_url(task) \in loaded.urls
  \/ ~IsJson(variant) /\ NormalizedItemKeys(task) \in loaded.prints

\* process_item is called in this step
ProcessItemCalled == invoked' = Append(invoked, i)

\* C1: the tabular sink never holds two rows with equal Fingerprints (the key
\* fields, case-folded and trimmed), whatever runs and persist operations came
\* before.
C1_NoEqualFingerprintRows ==
  \A j, k \in 1..Len(csvFile.rows) :
    j # k => RowPrint(csvFile.rows[j]) # RowPrint(csvFile.rows[k])

\* C2: when crawl() has returned, every Record process_item returned in that run
\* is in the result sink, also for the crawlers that return {data, path} and
\* leave the write to save_data.
C2_AcceptedRecordsDurable ==
  (pc = "done" /\ endReason # "enter_error") =>
    \A r \in accepted : \E f \in jsonFiles : f.path = r.path /\ f.data = r.data

\* C3: the failure of one task never ends the run: the loop is left only when
\* the list is exhausted, the cap is reached, shutdown is requested or the task
\* fetcher failed.
C3_TaskFailureKeepsRunning ==
  endReason \in {"none", "exhausted", "cap", "stop", "cancelled", "fetcher_error",
                 "enter_error", "load_error"}

\* C4 (as claimed): a task whose extraction failed in an earlier run and that has
\* no Record in the sink is not passed over when a later run reaches it: it is
\* given to process_item again.
C4_FailedTaskExtractedAgain ==
  [][(/\ InLoop
      /\ ~CapHit
      /\ ~StopRequested
      /\ FailedEarlier(CurrentItem)
      /\ ~RecordInSink(CurrentItem))
     => ~(i' = i + 1 /\ invoked' = invoked)]_vars

\* C4 (amended): a task whose extraction failed in an earlier run, and whose
\* identifier is in the ledger file and reads back unchanged, is never given to
\* process_item again, with or without a Record in the sink.
C4_FailedTaskStaysSkipped ==
  [][(/\ InLoop
      /\ FailedEarlier(CurrentItem)
      /\ item_url(CurrentItem) \in LedgerRows(ledgerFile)
      /\ item_url(CurrentItem) \notin NaValues)
     => ~ProcessItemCalled]_vars

\* a later run reaches a task that failed before, has no Record and is in the ledger
C4_Witness ==
  /\ InLoop
  /\ ~CapHit
  /\ ~StopRequested
  /\ FailedEarlier(CurrentItem)
  /\ ~RecordInSink(CurrentItem)
  /\ item_url(CurrentItem) \in LedgerRows(ledgerFile)
  /\ item_url(CurrentItem) \notin NaValues

\* C5: while process_item runs for a task, the task's identifier is in the ledger
\* cache and in the ledger file.
C5_LedgerEntryBeforeProcess ==
  pc \in {"retry", "inflight", "backoff", "reinit", "direct"} =>
    /\ item_url(CurrentItem) \in processed_urls_cache
    /\ item_url(CurrentItem) \in LedgerRows(ledgerFile)

\* C6: a task whose identifier was in the ledger, or whose Fingerprint matched a
\* Record of the sink, when the run loaded its state is never given to
\* process_item in that run; and passing over a task changes neither the ledger,
\* nor the sink, nor all_items.
C6_LoadedTaskSkipped ==
  [][/\ (InLoop /\ LoadedCovers(CurrentItem)) => ~ProcessItemCalled
     /\ (InLoop /\ i' = i + 1 /\ invoked' = invoked)
          => UNCHANGED <<ledgerFile, csvFile, jsonFiles, all_items>>]_vars

\* C7: no row of the result sink has a required field that is empty.
C7_RequiredFieldsNonEmpty ==
  \A k \in 1..Len(csvFile.rows) : \A key \in required_keys : csvFile.rows[k][key] # <<>>

C9_AttemptRunsToCompletion ==
  [][(pc \in {"inflight", "direct"} /\ stop_event) => pc' # "killed"]_vars

\* C9 (amended): the orchestrator never cancels an attempt that is in flight:
\* after a shutdown request the attempt ends by returning or raising, or by the
\* handler's timer ending the process.
C9_OrchestratorNeverAborts ==
  [][(pc \in {"inflight", "direct"} /\ stop_event)
     => (pc' = "killed" \/ endReason' \notin {"stop", "cancelled"})]_vars

\* the handler has run while an attempt is in flight
C9_Witness == pc = "inflight" /\ stop_event /\ exitTimer /\ attempt > 0

AcceptedDurable == \A r \in accepted : \E f \in jsonFiles : f.path = r.path /\ f.data = r.data

\* the loop of crawl() would pass over task k: it is in the ledger cache or its
\* key is in seen_items
WillSkip(k) ==
  \/ item_url(urls_to_crawl[k]) \in processed_urls_cache
  \/ is_duplicate(urls_to_crawl[k], seen_items)

\* C11: when shutdown is requested during the pacing wait, the wait ends without
\* a further task being started, the loop is left, and the Records accepted so
\* far are in the sink when the process exits.
C11_PacingInterruptFlushes ==
  [][/\ (pc = "pace" /\ stop_event) =>
          (pc' \in {"pace", "finalize", "killed"} /\ ~ProcessItemCalled)
     /\ (/\ (pc = "pace" /\ stop_event) \/ (pc = "finalize" /\ endReason = "stop")
         /\ pc' \in {"done", "killed"}) => AcceptedDurable]_vars

\* C12: a shutdown request ends the backoff sleep early: with stop_event set the
\* sleep never runs its full delay, and no attempt follows it.
C12_BackoffInterruptible ==
  [][(pc = "backoff" /\ stop_event) => pc' \in {"backoff", "finalize", "killed"}]_vars

\* the calls of crawler.arun made so far for the current task are at least this
\* many: one for every fetch before this one, and attempt + 1 in this one
ArunCallsAtLeast == IF variant = "json_deferred" THEN fetchNo ELSE fetchNo + attempt

\* C13 (as claimed): no task causes more than max_retries calls of crawler.arun
\* in one run, however many fetches process_item makes for it.
C13_BudgetPerTask == pc = "inflight" => ArunCallsAtLeast <= max_retries

\* C13 (amended): one call of _run_crawler_with_retries makes at most max_retries
\* calls of crawler.arun, and a task at most max_retries for each of its fetches.
C13_BudgetPerFetch ==
  pc \in {"retry", "inflight", "backoff", "reinit"} =>
    /\ attempt + 1 <= max_retries
    /\ fetchNo <= FetchesPerItem(variant)

\* the second fetch of a task is on its last attempt: more than max_retries calls
C13_Witness == pc = "inflight" /\ fetchNo = 2 /\ attempt = max_retries - 1

\* C14: with an item cap N a run persists at most N Records.
C14_CapBoundsRecords ==
  (max_items # NoCap /\ variant = "csv_append"
     /\ pc \in {"loop", "retry", "inflight", "backoff", "reinit", "pace", "finalize"})
    => Cardinality(SinkPrints(csvFile) \ loaded.prints) <= max_items

\* C15: a run that the item cap ends has processed N tasks, unless fewer than N
\* of its tasks were there to process: tasks passed over do not use up the cap.
C15_SkipsDoNotConsumeCap ==
  (pc = "finalize" /\ endReason = "cap" /\ Len(invoked) < max_items) =>
    Len(invoked) + Cardinality({item_url(urls_to_crawl[k]) :
                                  k \in {n \in i..Len(urls_to_crawl) : ~WillSkip(n)}}) < max_items

C17_OneLiveSession == ~(unreleased /\ session = "live")

\* C18: crawl() never returns with its session live.
C18_SessionReleasedAtExit == pc = "done" => session # "live"

C20_PacingOnlyBetweenProcessed ==
  pc = "pace" =>
    /\ invoked # <<>>
    /\ ~CapHit
    /\ \E k \in (i + 1)..Len(urls_to_crawl) : ~WillSkip(k)

\* C21: between two consecutive attempts of one retry loop there is a backoff
\* wait: the next attempt of a loop is only ever reached from the backoff sleep,
\* whether the attempt before it raised or returned no content.
C21_BackoffBetweenAttempts ==
  [][(pc' = "retry" /\ attempt' = attempt + 1) => pc = "backoff"]_vars

C23_SuggestedWaitApplied ==
  (lpc = "sleep" /\ policy \in {"retry", "rate_limit"}
     /\ IsRateLimit(error) /\ precise_wait_time(error) # NoMatch)
    => delay = precise_wait_time(error)

\* C24: appending to the ledger is idempotent: the ledger file never holds two
\* rows for one identifier, and no step removes a row.
C24_LedgerAppendIdempotent ==
  /\ [](\A a, b \in 1..Len(ledgerFile.rows) :
          ledgerFile.rows[a] = ledgerFile.rows[b] => a = b)
  /\ [][/\ Len(ledgerFile'.rows) >= Len(ledgerFile.rows)
        /\ SubSeq(ledgerFile'.rows, 1, Len(ledgerFile.rows)) = ledgerFile.rows]_vars

\* C25: persisting to a tabular sink never loses history: every Fingerprint in
\* the file before a step is in it after the step, for the sink of BaseCrawler
\* and for the CSV that save_offers_to_csv writes.
C25_SinkKeepsHistory ==
  [][/\ SinkPrints(csvFile) \subseteq SinkPrints(csvFile')
     /\ \A k \in 1..Len(offersFile.rows) :
          \E j \in 1..Len(offersFile'.rows) : offersFile'.rows[j] = offersFile.rows[k]]_vars

\* C26: loading tolerates a missing or empty backing store: a run that finds
\* the sink file present and empty raises no error out of crawl() while loading
\* it.
C26_EmptyStoreTolerated ==
  (csvFile = EmptyCsv /\ pc = "done") => endReason # "load_error"

\* C27: the run state does not carry over: when crawl() is called on an object,
\* whether a new one or one that has run before, the run starts with the
\* cancellation flag clear, no accumulated record and an empty seen set, as a
\* new object over the same store does.
C27_RunStateFresh ==
  [][(pc \in {"idle", "done"} /\ pc' = "entering")
       => (~stop_event' /\ all_items' = <<>> /\ seen_items' = {})]_vars

\* C28: three tasks of which the third has the Fingerprint of the first, every
\* extraction succeeding: when the run has ended the sink holds exactly 2
\* Records and the ledger 3 entries.
C28_TwoRecordsThreeEntries ==
  (pc = "done" /\ urls_to_crawl \in DupTaskLists /\ invoked = <<1, 2, 3>>)
    => /\ (IF IsJson(variant) THEN Cardinality(jsonFiles) ELSE Len(csvFile.rows)) = 2
       /\ Len(ledgerFile.rows) = 3

\* C29: in the per-item sink two Records with different Fingerprints never map
\* to the same file: a write replaces a file only by a Record with the
\* Fingerprint of the Record the file held.
C29_NoFileOverwrittenByAnother ==
  [][\A f \in jsonFiles : \E g \in jsonFiles' :
        /\ g.path = f.path
        /\ NamePrint(g.data.offer_name) = NamePrint(f.data.offer_name)]_vars

\* C30: while no Delete or Re-add was cut short, between operations every
\* dynamic crawler key is in exactly one of the active and the inactive
\* configuration, in memory and in the two files; and a Re-add that completes
\* leaves its key in the active configuration and not in the inactive one.
C30_KeyInExactlyOneConfig ==
  /\ []((cpc = "menu" /\ ~interrupted) =>
          \A key \in CrawlerKeys :
            /\ (key \in dynamic_crawlers_config) # (key \in inactive_crawlers_config)
            /\ (key \in load_config(crawlersFile)) # (key \in load_config(inactiveFile)))
  /\ [][(cpc = "readding" /\ cpc' = "menu") =>
          /\ moving \in dynamic_crawlers_config' \ inactive_crawlers_config'
          /\ moving \in load_config(crawlersFile') \ load_config(inactiveFile')]_vars

\* a crawler was deleted and re-added: the inactive file has been written and
\* every crawler is active again
C30_Witness ==
  /\ cpc = "menu"
  /\ ~interrupted
  /\ inactiveFile = save_config({})
  /\ dynamic_crawlers_config = CrawlerKeys

C32_RunCrawlerReportsFailure ==
  [][cpc = "crawling" =>
       /\ raised' = "TypeError"
            => (cpc' = "menu" /\ printed' = <<"running", "arg_error">>)
       /\ raised' = "RuntimeError"
            => (cpc' = "menu" /\ printed' = <<"running", "error">>)
       /\ (\E n \in 1..Len(printed') : printed'[n] = "success") => raised' = "none"]_vars

\* run_crawler has returned to the menu after crawl() raised an Exception
C32_Witness ==
  /\ cpc = "menu"
  /\ raised = "RuntimeError"
  /\ printed = <<"running", "error">>

\* C33: main() calls crawl on the AngelTravelDetailedCrawler instance with
\* max_items = 4.
C33_DetailedCrawlCappedAtFour ==
  (variant = "json_deferred" /\ pc # "idle") => max_items = 4

\* C34: every identifier in processed_urls_cache is a row of the ledger file.
C34_CacheWithinLedgerFile ==
  processed_urls_cache \subseteq LedgerRows(ledgerFile)

\* C35: whenever a fetch attempt starts, the current session is live (entered
\* and not yet exited).
C35_AttemptOnLiveSession ==
  [][(pc # "inflight" /\ pc' = "inflight") => session = "live"]_vars

\* C36: in both sink modes, once the run has loaded its state, is_duplicate of a
\* task is true exactly when the sink holds a Record with the task's
\* normalised key fields.
C36_DuplicateIffPersisted ==
  pc = "fetch" => \A task \in TaskUniverse :
                    is_duplicate(task, seen_items) <=> RecordInSink(task)

\* C37: Records loaded from previous runs do not count against the item cap:
\* while a task without a persisted Record awaits, a run does not stop at the
\* cap before process_item was called for a task of this run.
C37_CapCountsNewTasksOnly ==
  [][(/\ endReason # "cap" /\ endReason' = "cap"
      /\ \E k \in i..Len(urls_to_crawl) : ~RecordInSink(urls_to_crawl[k]))
     => invoked # <<>>]_vars

\* C38: in DariTourExcursionsCrawler no discovered offer is lost by resume
\* bookkeeping: when a run is over, every offer of a destination that the file
\* of processed destinations holds, which no later run lists again, is
\* recorded in the sink.
C38_NoOfferLost ==
  pc = "done" =>
    \A d \in load_processed_destination_urls(destFile) :
      \A k \in 1..Len(DestinationOffers[d]) :
        ListingKey(DestinationOffers[d][k]) \in SinkPrints(csvFile)

\* the positions of crawl() inside its loop over the tasks
LoopPositions == {"loop", "retry", "inflight", "backoff", "reinit", "direct", "pace"}

\* C39: when every extractor call and every sleep returns, crawl() reaches
\* finalization from its loop, unless the interrupt handler has armed the exit
\* of the process; inside the loop the task list is not changed and the index
\* never goes back, process_item is called at most once for an index, and an
\* attempt is in flight only with attempt < max_retries.
C39_CrawlReachesFinalization ==
  /\ (pc = "loop") ~> (pc = "finalize" \/ exitTimer)
  /\ [][(pc \in LoopPositions /\ pc' \in LoopPositions)
        => (urls_to_crawl' = urls_to_crawl /\ i' >= i)]_vars
  /\ [](\A a, b \in DOMAIN invoked : invoked[a] = invoked[b] => a = b)
  /\ [](pc = "inflight" => attempt < max_retries)

\* the loop went through every task of a list of two and was left at its end,
\* after a retry loop of this run had used up max_retries attempts
C39_Witness ==
  /\ pc = "finalize"
  /\ endReason = "exhausted"
  /\ Len(invoked) = 2
  /\ \E f \in failed : f[2] = runs

====
